---- MODULE Spec2Model ----
(***************************************************************************)
(* Coffee Places API: the query / filter / pagination handler of           *)
(* src/src/routes/coffeePlaces.ts and its record normalizer.               *)
(*                                                                         *)
(* Numbers on the 0-5 rating scale are carried in tenths of a star         *)
(* (google_rating is DECIMAL(2,1)), so 3.5 is 35 and quality_score / 2 is  *)
(* quality_score * 5.  Text values that the code compares byte-wise        *)
(* (HH:mm times) are sequences of character codes.                         *)
(***************************************************************************)
EXTENDS Integers, Sequences, FiniteSets, TLC

VARIABLES
  store,            \* coffee_places: row id -> raw record
  pc,               \* request -> position of routeHandler
  queryParams,      \* request -> parsed query parameters
  whereConditions,  \* request -> compiled predicate list
  params,           \* request -> positional parameter values
  total,            \* request -> result of the count query
  response,         \* request -> reply sent
  request,          \* request -> path and raw query string received
  log,              \* request -> error written with fastify.log.error
  record,           \* raw record handed to transformDatabaseRecord on its own
  place,            \* its result
  scan,             \* a client reading pages 1, 2, 3, ... of one query
  job,              \* a sync script run: its options, environment, position and locals
  sync_logs,        \* the sync_logs table: one row per logged run
  apiRequests,      \* requests sent to the Google Places API
  placeWrites,      \* INSERT / UPDATE statements run on coffee_places by a script
  appInstance,      \* the serverless module's cached application
  createAppCalls,   \* calls of createApp() made so far
  invocation,       \* serverless invocation -> position and the instance that served it
  openingHours,     \* an OSM opening_hours value handed to transformOSMElement
  simplified        \* the openingHoursStart / openingHoursEnd derived from it

scriptVars == <<job, sync_logs, apiRequests, placeWrites, appInstance, createAppCalls,
                invocation, openingHours, simplified>>

vars == <<store, pc, queryParams, whereConditions, params, total, response,
          request, log, record, place, scan, scriptVars>>

handlerVars == <<pc, queryParams, whereConditions, params, total, response,
                 request, log>>

----------------------------------------------------------------------------
(* Values *)

\* SQL NULL / JS null / undefined for a numeric column or parameter
NULL == -1

\* SQL NULL / JS null for a text column or parameter
NULLTEXT == "<null>"

\* top of the rating scale, in tenths of a star
MaxRating == 50

\* top of the completeness score
MaxQualityScore == 10

Min(a, b) == IF a <= b THEN a ELSE b

Max(a, b) == IF a >= b THEN a ELSE b

Range(f) == {f[i] : i \in DOMAIN f}

\* HH:mm text as character codes: digits are 48..57 and ':' is 58
TimeText(h, m) == <<48 + (h \div 10), 48 + (h % 10), 58, 48 + (m \div 10), 48 + (m % 10)>>

\* H:mm text with a one-digit hour
ShortTimeText(h, m) == <<48 + h, 58, 48 + (m \div 10), 48 + (m % 10)>>

\* the number an H:mm or HH:mm text splits into, as minutes of the day
MinuteOfDay(t) ==
  IF Len(t) = 5
    THEN ((t[1] - 48) * 10 + (t[2] - 48)) * 60 + (t[4] - 48) * 10 + (t[5] - 48)
    ELSE (t[1] - 48) * 60 + (t[3] - 48) * 10 + (t[4] - 48)

\* compareTime(time1, time2): negative, zero or positive by hour, then minute
compareTime(time1, time2) ==
  IF (MinuteOfDay(time1) \div 60) # (MinuteOfDay(time2) \div 60)
    THEN (MinuteOfDay(time1) \div 60) - (MinuteOfDay(time2) \div 60)
    ELSE (MinuteOfDay(time1) % 60) - (MinuteOfDay(time2) % 60)

\* a NULL time column (the empty text '' is <<>>)
NULLTIME == <<0>>

\* a NULL tags column, an absent tags parameter
NULLTAGS == {"<null>"}

\* text comparison a <= b, code by code, a proper prefix sorting first
RECURSIVE TextLeq(_, _)
TextLeq(a, b) ==
  IF a = <<>> THEN TRUE
  ELSE IF b = <<>> THEN FALSE
  ELSE IF Head(a) # Head(b) THEN Head(a) < Head(b)
  ELSE TextLeq(Tail(a), Tail(b))

\* the names the model stores, in collation order
NameOrder == <<"Aroma", "Bean">>

Names == Range(NameOrder)

NameRank(n) == CHOOSE i \in DOMAIN NameOrder : NameOrder[i] = n

\* SQL LOWER() / String.toLowerCase() on the city texts of the model
LOWER(s) ==
  CASE s = "Amsterdam" -> "amsterdam"
    [] s = "AMSTERDAM" -> "amsterdam"
    [] s = "Den Haag" -> "den haag"
    [] s = "The Hague" -> "the hague"
    [] s = "'s-Gravenhage" -> "'s-gravenhage"
    [] s = "'S-GRAVENHAGE" -> "'s-gravenhage"
    [] s = "s-Gravenhage" -> "s-gravenhage"
    [] s = "'s-Hertogenbosch" -> "'s-hertogenbosch"
    [] s = "s-Hertogenbosch" -> "s-hertogenbosch"
    [] s = "Den Bosch" -> "den bosch"
    [] s = "WiFi" -> "wifi"
    [] s = "Italian" -> "italian"
    [] OTHER -> s

----------------------------------------------------------------------------
(* Record normalizer *)

\* JS truthiness of a numeric value: null, undefined and 0 are falsy
Truthy(v) == v # NULL /\ v # 0

\* JS truthiness of a text value: null and '' are falsy
TruthyText(s) == s # NULLTEXT /\ s # ""

\* JS truthiness of an HH:mm text
TruthyTime(t) == t # NULLTIME /\ t # <<>>

\* the fields of the response that are present only when the column is
EmptyFields == [f \in {} |-> NULL]

\* a field written whatever the column holds
OptionalFieldAlways(present, name, value) == [f \in {name} |-> value]

OptionalField(present, name, value) ==
  IF present THEN [f \in {name} |-> value] ELSE EmptyFields

\* record.column for a number, a text and a boolean column; a row that was
\* selected without the column reads as undefined, which the tests treat as null.
\* Boolean columns hold "true", "false" or NULLTEXT.
NumColumn(rec, c) == IF c \in DOMAIN rec THEN rec[c] ELSE NULL

TextColumn(rec, c) == IF c \in DOMAIN rec THEN rec[c] ELSE NULLTEXT

\* if (record.x != null) response.y = Number(record.x)
NumberField(rec, c, name) == OptionalField(NumColumn(rec, c) # NULL, name, NumColumn(rec, c))

\* if (record.x != null) response.y = record.x, for the boolean columns
FlagField(rec, c, name) == OptionalField(TextColumn(rec, c) # NULLTEXT, name, TextColumn(rec, c))

\* if (record.x) response.y = record.x, for the text columns
TextField(rec, c, name) == OptionalField(TruthyText(TextColumn(rec, c)), name, TextColumn(rec, c))

\* hasAddress: any of street, housenumber, postcode, full
hasAddress(rec) ==
  \E c \in {"address_street", "address_housenumber", "address_postcode", "address_full"} :
    TruthyText(TextColumn(rec, c))

\* the address object, one spread per sub-field
AddressOf(rec) ==
  TextField(rec, "address_street", "street")
  @@ TextField(rec, "address_housenumber", "housenumber")
  @@ TextField(rec, "address_postcode", "postcode")
  @@ TextField(rec, "address_city", "city")
  @@ TextField(rec, "address_full", "full")

\* the optional fields after the core fields, apart from qualityScore and
\* googleRating
OptionalFields(rec) ==
  NumberField(rec, "lat", "lat")
  @@ NumberField(rec, "lon", "lon")
  @@ TextField(rec, "phone", "phone")
  @@ TextField(rec, "website", "website")
  @@ TextField(rec, "email", "email")
  @@ OptionalField(hasAddress(rec), "address", AddressOf(rec))
  @@ TextField(rec, "opening_hours", "openingHours")
  @@ FlagField(rec, "has_wifi", "hasWifi")
  @@ FlagField(rec, "has_outdoor_seating", "hasOutdoorSeating")
  @@ FlagField(rec, "has_wheelchair_access", "hasWheelchairAccess")
  @@ FlagField(rec, "has_takeaway", "hasTakeaway")
  @@ FlagField(rec, "has_delivery", "hasDelivery")
  @@ FlagField(rec, "is_verified", "isVerified")
  @@ NumberField(rec, "google_review_count", "googleReviewCount")
  @@ NumberField(rec, "google_price_level", "googlePriceLevel")

\* RatingOf with the completeness score taken over unscaled
RatingOfUnscaled(rec) ==
  IF Truthy(rec.google_rating) THEN rec.google_rating
  ELSE IF Truthy(rec.quality_score) THEN rec.quality_score * 10
  ELSE 0

\* RatingOf with the completeness score rounded down to whole stars
RatingOfWholeStars(rec) ==
  IF Truthy(rec.google_rating) THEN rec.google_rating
  ELSE IF Truthy(rec.quality_score) THEN (rec.quality_score \div 2) * 10
  ELSE 0

\* rating: google_rating, else quality_score / 2, else 0 (tenths of a star)
RatingOf(rec) ==
  IF Truthy(rec.google_rating) THEN rec.google_rating
  ELSE IF Truthy(rec.quality_score) THEN rec.quality_score * 5
  ELSE 0

transformDatabaseRecord(rec) ==
  [ id |-> rec.id,
    name |-> rec.name,
    city |-> IF TruthyText(rec.address_city) THEN rec.address_city ELSE "Unknown",
    rating |-> RatingOf(rec),
    openHours |->
      [ start |-> IF TruthyTime(rec.opening_hours_start)
                    THEN rec.opening_hours_start ELSE TimeText(8, 0),
        end |-> IF TruthyTime(rec.opening_hours_end)
                  THEN rec.opening_hours_end ELSE TimeText(18, 0) ],
    tags |-> IF rec.tags # NULLTAGS THEN rec.tags ELSE {} ]
  @@ OptionalField(rec.quality_score # NULL, "qualityScore", rec.quality_score)
  @@ OptionalField(rec.google_rating # NULL, "googleRating", rec.google_rating)
  @@ OptionalFields(rec)

----------------------------------------------------------------------------
(* Query parameter validation *)

\* a numeric query-string value that does not parse as a number
NotANumber == -2

\* limit: integer in 1..MaxLimit, 10 when absent
MaxLimit == 100

DefaultLimit == 10

DefaultPage == 1

\* the canonical names of the city aliases
CityCanonical == <<"'s-Gravenhage", "'s-Hertogenbosch">>

CITY_ALIASES ==
  [ c \in Range(CityCanonical) |->
      IF c = "'s-Gravenhage"
        THEN {"Den Haag", "The Hague", "'s-Gravenhage", "s-Gravenhage"}
        ELSE {"Den Bosch", "'s-Hertogenbosch", "s-Hertogenbosch"} ]

\* the lookup without toLowerCase() on the name asked for
getCanonicalCityNameExact(cityName) ==
  LET hits == {c \in DOMAIN CITY_ALIASES : cityName \in CITY_ALIASES[c]}
  IN IF hits # {} THEN CHOOSE c \in hits : TRUE ELSE cityName

\* alias -> canonical name, keyed by the lower-cased alias
getCanonicalCityName(cityName) ==
  LET hits == {c \in DOMAIN CITY_ALIASES :
                 \E a \in CITY_ALIASES[c] : LOWER(a) = LOWER(cityName)}
  IN IF hits # {} THEN CHOOSE c \in hits : TRUE ELSE cityName

\* the name shown for a city: the English name of the two aliased cities
getCityDisplayName(cityName) ==
  LET canonical == getCanonicalCityName(cityName)
  IN CASE canonical = "'s-Gravenhage" -> "The Hague"
       [] canonical = "'s-Hertogenbosch" -> "Den Bosch"
       [] OTHER -> canonical

\* '^([0-1]?[0-9]|2[0-3]):[0-5][0-9]$' on character codes
IsDigit(c) == c >= 48 /\ c <= 57

MatchesTimePattern(t) ==
  \/ /\ Len(t) = 5
     /\ \/ t[1] \in {48, 49} /\ IsDigit(t[2])
        \/ t[1] = 50 /\ t[2] \in 48..51
     /\ t[3] = 58 /\ t[4] \in 48..53 /\ IsDigit(t[5])
  \/ /\ Len(t) = 4
     /\ IsDigit(t[1])
     /\ t[2] = 58 /\ t[3] \in 48..53 /\ IsDigit(t[4])

\* the fields of a raw query that fail validation
InvalidFields(raw) ==
  {f \in {"minRating"} : raw.minRating # NULL
       /\ (raw.minRating = NotANumber \/ raw.minRating < 0 \/ raw.minRating > MaxRating)}
  \cup {f \in {"openAfter"} : raw.openAfter # NULLTIME /\ ~MatchesTimePattern(raw.openAfter)}
  \cup {f \in {"openBefore"} : raw.openBefore # NULLTIME /\ ~MatchesTimePattern(raw.openBefore)}
  \cup {f \in {"random"} : raw.random \notin {NULLTEXT, "true", "false"}}
  \cup {f \in {"limit"} : raw.limit # NULL
       /\ (raw.limit = NotANumber \/ raw.limit < 1 \/ raw.limit > MaxLimit)}
  \cup {f \in {"page"} : raw.page # NULL /\ (raw.page = NotANumber \/ raw.page < 1)}

\* queryParamsSchema.parse on a raw query that passes validation
ParseQuery(raw) ==
  [ city |-> IF raw.city = NULLTEXT THEN NULLTEXT ELSE getCanonicalCityName(raw.city),
    minRating |-> raw.minRating,
    openAfter |-> raw.openAfter,
    openBefore |-> raw.openBefore,
    tags |-> IF raw.tags = NULLTAGS THEN NULLTAGS ELSE {LOWER(t) : t \in raw.tags},
    random |-> raw.random = "true",
    limit |-> raw.limit,
    page |-> raw.page ]

----------------------------------------------------------------------------
(* Filter compilation: whereConditions and params of routeHandler *)

\* one predicate; arg (and arg2) are the positions $n of its parameters
Condition(kind, arg) == [kind |-> kind, arg |-> arg, arg2 |-> arg + 1]

\* the handler pushes predicates in this order, each when its parameter is set
CompileCity(qp, acc) ==
  IF TruthyText(qp.city)
    THEN [conds |-> Append(acc.conds, Condition("city", Len(acc.params) + 1)),
          params |-> Append(acc.params, qp.city)]
    ELSE acc

\* minQualityScore = minRating * 2, pushed next to minRating
CompileMinRating(qp, acc) ==
  IF qp.minRating # NULL
    THEN [conds |-> Append(acc.conds, Condition("minRating", Len(acc.params) + 1)),
          params |-> acc.params \o <<qp.minRating, qp.minRating * 2>>]
    ELSE acc

CompileOpenAfter(qp, acc) ==
  IF TruthyTime(qp.openAfter)
    THEN [conds |-> Append(acc.conds, Condition("openAfter", Len(acc.params) + 1)),
          params |-> Append(acc.params, qp.openAfter)]
    ELSE acc

CompileOpenBefore(qp, acc) ==
  IF TruthyTime(qp.openBefore)
    THEN [conds |-> Append(acc.conds, Condition("openBefore", Len(acc.params) + 1)),
          params |-> Append(acc.params, qp.openBefore)]
    ELSE acc

CompileTags(qp, acc) ==
  IF qp.tags # NULLTAGS /\ Cardinality(qp.tags) > 0
    THEN [conds |-> Append(acc.conds, Condition("tags", Len(acc.params) + 1)),
          params |-> Append(acc.params, qp.tags)]
    ELSE acc

CompileWhere(qp) ==
  CompileTags(qp,
    CompileOpenBefore(qp,
      CompileOpenAfter(qp,
        CompileMinRating(qp,
          CompileCity(qp, [conds |-> <<>>, params |-> <<>>])))))

----------------------------------------------------------------------------
(* Storage: how PostgreSQL evaluates the compiled queries *)

COALESCE(v, d) == IF v = NULL THEN d ELSE v

\* a <@ b in place of a @> b
ArrayContainedBy(a, b) == a \subseteq b

\* a && b in place of a @> b
ArrayOverlaps(a, b) == a \cap b # {}

\* a @> b on text arrays: every element of b is an element of a
ArrayContains(a, b) == b \subseteq a

\* one predicate on one row; a comparison with a NULL column is not true.
\* quality_score is compared with minRating * 2, which is in tenths
EvalCondition(c, ps, rec) ==
  CASE c.kind = "city" ->
         rec.address_city # NULLTEXT /\ LOWER(rec.address_city) = LOWER(ps[c.arg])
    [] c.kind = "minRating" ->
         \/ COALESCE(rec.google_rating, 0) >= ps[c.arg]
         \/ rec.quality_score # NULL /\ rec.quality_score * 10 >= ps[c.arg2]
    [] c.kind = "openAfter" ->
         rec.opening_hours_start # NULLTIME /\ TextLeq(rec.opening_hours_start, ps[c.arg])
    [] c.kind = "openBefore" ->
         rec.opening_hours_end # NULLTIME /\ TextLeq(ps[c.arg], rec.opening_hours_end)
    [] c.kind = "tags" ->
         rec.tags # NULLTAGS /\ ArrayContains(rec.tags, ps[c.arg])

\* WHERE c1 AND c2 AND ...; no WHERE clause when the list is empty
Matches(conds, ps, rec) == \A i \in DOMAIN conds : EvalCondition(conds[i], ps, rec)

\* the ids of the rows a WHERE clause selects
Selected(rows, conds, ps) == {id \in DOMAIN rows : Matches(conds, ps, rows[id])}

\* CountRows without the WHERE clause
CountRowsNoWhere(rows, conds, ps) == Cardinality(DOMAIN rows)

\* SELECT COUNT(*) ... WHERE
CountRows(rows, conds, ps) == Cardinality(Selected(rows, conds, ps))

\* ORDER BY quality_score DESC, name ASC: a may come before b.
\* DESC puts NULL first; rows equal on both keys may come in either order
QualityRank(rec) == IF rec.quality_score = NULL THEN MaxQualityScore + 1 ELSE rec.quality_score

MayPrecede(a, b) ==
  \/ QualityRank(a) > QualityRank(b)
  \/ QualityRank(a) = QualityRank(b) /\ NameRank(a.name) <= NameRank(b.name)

\* every order in which the rows of ids can come back under the ORDER BY
ResultOrders(rows, ids) ==
  {seq \in [1..Cardinality(ids) -> ids] :
     /\ \A i, j \in DOMAIN seq : i # j => seq[i] # seq[j]
     /\ \A i, j \in DOMAIN seq : i < j => MayPrecede(rows[seq[i]], rows[seq[j]])}

\* LimitOffset with an offset past the end pulled back to the last rows
LimitOffsetClamped(seq, limit, offset) ==
  LET off == Min(offset, Max(0, Len(seq) - limit))
  IN SubSeq(seq, off + 1, Min(Len(seq), off + limit))

\* LIMIT limit OFFSET offset on an ordered result
LimitOffset(seq, limit, offset) == SubSeq(seq, offset + 1, Min(Len(seq), offset + limit))

\* DataRows without the WHERE clause
DataRowsNoWhere(rows, conds, ps, limit, offset) ==
  {LimitOffset(seq, limit, offset) : seq \in ResultOrders(rows, DOMAIN rows)}

\* the results the data query can give
DataRows(rows, conds, ps, limit, offset) ==
  {LimitOffset(seq, limit, offset) : seq \in ResultOrders(rows, Selected(rows, conds, ps))}

\* RandomRows sampling the table before the WHERE clause: may come back empty
RandomRowsSampled(rows, conds, ps) ==
  {<<>>} \cup {<<id>> : id \in Selected(rows, conds, ps)}

\* RandomRows without ORDER BY RANDOM(): the first selected row
RandomRowsFirst(rows, conds, ps) ==
  IF Selected(rows, conds, ps) = {} THEN {<<>>}
  ELSE {<<CHOOSE id \in Selected(rows, conds, ps) :
            \A other \in Selected(rows, conds, ps) : id <= other>>}

\* ORDER BY RANDOM() LIMIT 1: any one selected row, or none when none is selected
RandomRows(rows, conds, ps) ==
  IF Selected(rows, conds, ps) = {} THEN {<<>>}
  ELSE {<<id>> : id \in Selected(rows, conds, ps)}

----------------------------------------------------------------------------
(* Bounds and the values requests and rows are drawn from *)

\* rows in coffee_places
MaxRecords == 2

\* highest page number requested
MaxPage == 3

\* a row; every column the handler reads
Row(id, name, city, google, quality, start, end, tags) ==
  [ id |-> id, name |-> name, address_city |-> city,
    google_rating |-> google, quality_score |-> quality,
    opening_hours_start |-> start, opening_hours_end |-> end, tags |-> tags ]

\* the column values of the rows under the rating and paging claims
RatingRows ==
  { Row(0, n, "Amsterdam", g, q, TimeText(8, 0), TimeText(18, 0), {"wifi"}) :
      n \in Names, g \in {NULL, 20, 45}, q \in {NULL, 10} }

\* every table of at most MaxRecords rows over the given column values
StoresOver(rowValues) ==
  UNION { { [i \in 1..n |-> [f[i] EXCEPT !.id = i]] : f \in [1..n -> rowValues] } :
          n \in 0..MaxRecords }

\* a raw query string, every parameter absent
NoQuery ==
  [ city |-> NULLTEXT, minRating |-> NULL, openAfter |-> NULLTIME, openBefore |-> NULLTIME,
    tags |-> NULLTAGS, random |-> NULLTEXT, limit |-> NULL, page |-> NULL ]

\* the raw queries under the rating and paging claims; 90 and 0 are out of range
RatingQueries ==
  { [NoQuery EXCEPT !.minRating = r, !.random = x, !.limit = l, !.page = p] :
      r \in {NULL, 30, 90}, x \in {NULLTEXT, "true"},
      l \in {NULL, 1, 2, 0}, p \in {NULL} \cup 2..MaxPage }

----------------------------------------------------------------------------
(* State *)

NoResponse == [status |-> 0]

NoRequest == [path |-> "<none>"]

NoLog == "<nothing logged>"

NoParams == ParseQuery(NoQuery)

\* the state after construction: a table, and requests not yet received
\* no sync script has run, the serverless module is not loaded, no OSM value
\* is being transformed
NoJob == [script |-> "none", pc |-> "none"]

\* appInstance = null; the applications are numbered from 1
NoApp == 0

\* no element is being transformed: a value that is no text
NoHours == [value |-> <<NULL>>]

ScriptsIdle ==
  /\ job = NoJob
  /\ sync_logs = <<>>
  /\ apiRequests = 0
  /\ placeWrites = 0
  /\ appInstance = NoApp
  /\ createAppCalls = 0
  /\ invocation = <<>>
  /\ openingHours = NoHours
  /\ simplified = <<>>

InitHandler(requests) ==
  /\ pc = [r \in requests |-> "idle"]
  /\ queryParams = [r \in requests |-> NoParams]
  /\ whereConditions = [r \in requests |-> <<>>]
  /\ params = [r \in requests |-> <<>>]
  /\ total = [r \in requests |-> NULL]
  /\ response = [r \in requests |-> NoResponse]
  /\ request = [r \in requests |-> NoRequest]
  /\ log = [r \in requests |-> NoLog]

NoScan == [mode |-> "off"]

NoRecord == [id |-> 0]

Init ==
  /\ store \in StoresOver(RatingRows)
  /\ InitHandler({1})
  /\ ScriptsIdle
  /\ record = NoRecord
  /\ place = NoRecord
  /\ scan = NoScan

----------------------------------------------------------------------------
(* routeHandler, one action per stretch between two awaits *)

\* the reply of the catch block to a ZodError
ValidationReply(fields) ==
  [status |-> 400, error |-> "Invalid query parameters", details |-> fields]

\* the reply of the catch block to any other error
ErrorReply(message) ==
  [status |-> 500, error |-> "Internal server error", message |-> message]

NotFoundReply ==
  [status |-> 404, error |-> "No coffee places found matching the criteria"]

OkReply(meta, rows) ==
  [ status |-> 200, meta |-> meta,
    data |-> [i \in DOMAIN rows |-> transformDatabaseRecord(store[rows[i]])] ]

\* limit, page and offset as the handler defaults and derives them
EffectiveLimitUndefaulted(qp) == qp.limit

EffectiveLimit(qp) == IF qp.limit = NULL THEN DefaultLimit ELSE qp.limit

EffectivePage(qp) == IF qp.page = NULL THEN DefaultPage ELSE qp.page

Offset(qp) == (EffectivePage(qp) - 1) * EffectiveLimit(qp)

\* the registration, had /places been left to the framework's 404 handler
RoutesOnePath ==
  [ p \in {"/coffee-places", "/places", "/cities"} |->
      IF p = "/cities" THEN "citiesHandler"
      ELSE IF p = "/places" THEN "notFoundHandler" ELSE "routeHandler" ]

\* the paths the two route plugins register, and the handler behind each
Routes ==
  [ p \in {"/coffee-places", "/places", "/cities"} |->
      IF p = "/cities" THEN "citiesHandler" ELSE "routeHandler" ]

\* the parameters that fail routeSchema.querystring, in the order of the schema:
\* the pattern of openAfter and openBefore, the enum of random
SchemaInvalidFields(raw) ==
  SelectSeq(<<"openAfter", "openBefore", "random">>,
    LAMBDA f :
      \/ f = "openAfter" /\ raw.openAfter # NULLTIME /\ ~MatchesTimePattern(raw.openAfter)
      \/ f = "openBefore" /\ raw.openBefore # NULLTIME /\ ~MatchesTimePattern(raw.openBefore)
      \/ f = "random" /\ raw.random \notin {NULLTEXT, "true", "false"})

\* the reply of the framework when the query string fails the route schema:
\* validation stops at the first failing parameter, the handler is not run, and
\* of the framework's error only the properties of the 400 response schema
\* (error, details) are serialized
SchemaErrorReply == [status |-> 400, error |-> "Bad Request"]

\* the handler, had whereConditions and params been declared outside of it:
\* every request in flight sees the clause of the request that arrived last
ReceiveAtShared(r, paths, raws) ==
  /\ pc[r] = "idle"
  /\ \E path \in paths, raw \in raws :
       /\ Routes[path] = "routeHandler"
       /\ request' = [request EXCEPT ![r] = [path |-> path, query |-> raw]]
       /\ IF SchemaInvalidFields(raw) # <<>>
            THEN /\ response' = [response EXCEPT ![r] = SchemaErrorReply]
                 /\ pc' = [pc EXCEPT ![r] = "done"]
                 /\ UNCHANGED <<queryParams, whereConditions, params, log>>
          ELSE IF InvalidFields(raw) # {}
            THEN /\ response' = [response EXCEPT ![r] = ValidationReply(InvalidFields(raw))]
                 /\ log' = [log EXCEPT ![r] = "ZodError"]
                 /\ pc' = [pc EXCEPT ![r] = "done"]
                 /\ UNCHANGED <<queryParams, whereConditions, params>>
          ELSE LET qp == ParseQuery(raw)
                   where == CompileWhere(qp)
               IN /\ queryParams' = [queryParams EXCEPT ![r] = qp]
                  /\ whereConditions' = [x \in DOMAIN pc |-> where.conds]
                  /\ params' = [x \in DOMAIN pc |-> where.params]
                  /\ pc' = [pc EXCEPT ![r] = IF qp.random THEN "random" ELSE "count"]
                  /\ UNCHANGED <<response, log>>
  /\ UNCHANGED <<store, total, record, place, scan, scriptVars>>

\* a request on one of the two paths: validate against the route schema, parse
\* the query, build the WHERE clause, send the first query
ReceiveAt(r, paths, raws) ==
  /\ pc[r] = "idle"
  /\ \E path \in paths, raw \in raws :
       /\ Routes[path] = "routeHandler"
       /\ request' = [request EXCEPT ![r] = [path |-> path, query |-> raw]]
       /\ IF SchemaInvalidFields(raw) # <<>>
            THEN /\ response' = [response EXCEPT ![r] = SchemaErrorReply]
                 /\ pc' = [pc EXCEPT ![r] = "done"]
                 /\ UNCHANGED <<queryParams, whereConditions, params, log>>
          ELSE IF InvalidFields(raw) # {}
            THEN /\ response' = [response EXCEPT ![r] = ValidationReply(InvalidFields(raw))]
                 /\ log' = [log EXCEPT ![r] = "ZodError"]
                 /\ pc' = [pc EXCEPT ![r] = "done"]
                 /\ UNCHANGED <<queryParams, whereConditions, params>>
          ELSE LET qp == ParseQuery(raw)
                   where == CompileWhere(qp)
               IN /\ queryParams' = [queryParams EXCEPT ![r] = qp]
                  /\ whereConditions' = [whereConditions EXCEPT ![r] = where.conds]
                  /\ params' = [params EXCEPT ![r] = where.params]
                  /\ pc' = [pc EXCEPT ![r] = IF qp.random THEN "random" ELSE "count"]
                  /\ UNCHANGED <<response, log>>
  /\ UNCHANGED <<store, total, record, place, scan, scriptVars>>

\* a request on /coffee-places
ReceiveFrom(r, raws) == ReceiveAt(r, {"/coffee-places"}, raws)

Receive(r) == ReceiveFrom(r, RatingQueries)

\* the random query returns: 404 on no row, else the one row
RandomQuery(r) ==
  /\ pc[r] = "random"
  /\ \E rows \in RandomRows(store, whereConditions[r], params[r]) :
       response' = [response EXCEPT ![r] =
         IF Len(rows) = 0 THEN NotFoundReply
         ELSE OkReply([total |-> 1, page |-> 1, pageSize |-> 1], rows)]
  /\ pc' = [pc EXCEPT ![r] = "done"]
  /\ UNCHANGED <<store, queryParams, whereConditions, params, total, request, log, record, place, scan, scriptVars>>

\* the count query returns; the data query is sent
CountQuery(r) ==
  /\ pc[r] = "count"
  /\ total' = [total EXCEPT ![r] = CountRows(store, whereConditions[r], params[r])]
  /\ pc' = [pc EXCEPT ![r] = "data"]
  /\ UNCHANGED <<store, queryParams, whereConditions, params, response, request, log, record, place, scan, scriptVars>>

\* the data query, had it been a DELETE ... RETURNING of the matching rows
DataQueryDeleting(r) ==
  /\ pc[r] = "data"
  /\ \E rows \in DataRows(store, whereConditions[r], params[r],
                          EffectiveLimit(queryParams[r]), Offset(queryParams[r])) :
       /\ response' = [response EXCEPT ![r] =
            OkReply([ total |-> total[r], page |-> EffectivePage(queryParams[r]),
                      pageSize |-> EffectiveLimit(queryParams[r]) ], rows)]
       /\ store' = SelectSeq(store, LAMBDA rec : rec.id \notin Range(rows))
  /\ pc' = [pc EXCEPT ![r] = "done"]
  /\ UNCHANGED <<queryParams, whereConditions, params, total, request, log, record, place, scan, scriptVars>>

\* the data query returns; the page is transformed and sent
DataQuery(r) ==
  /\ pc[r] = "data"
  /\ \E rows \in DataRows(store, whereConditions[r], params[r],
                          EffectiveLimit(queryParams[r]), Offset(queryParams[r])) :
       response' = [response EXCEPT ![r] =
         OkReply([ total |-> total[r], page |-> EffectivePage(queryParams[r]),
                   pageSize |-> EffectiveLimit(queryParams[r]) ], rows)]
  /\ pc' = [pc EXCEPT ![r] = "done"]
  /\ UNCHANGED <<store, queryParams, whereConditions, params, total, request, log, record, place, scan, scriptVars>>

\* the message of the error a rejected storage query throws
StorageErrorMessage == "Can't reach database server at db.internal:5432"

\* the catch block, had the handler sent meta as soon as the count was known
QueryFailsAfterMeta(r) ==
  /\ pc[r] \in {"random", "count", "data", "cities"}
  /\ log' = [log EXCEPT ![r] = StorageErrorMessage]
  /\ response' = [response EXCEPT ![r] =
       IF total[r] = NULL THEN ErrorReply(StorageErrorMessage)
       ELSE [ status |-> 500, error |-> "Internal server error",
              message |-> StorageErrorMessage, meta |-> [total |-> total[r]] ]]
  /\ pc' = [pc EXCEPT ![r] = "done"]
  /\ UNCHANGED <<store, queryParams, whereConditions, params, total, request, record, place, scan, scriptVars>>

\* a storage query rejects: the catch block logs the error and replies 500
\* with the error's message
QueryFails(r) ==
  /\ pc[r] \in {"random", "count", "data", "cities"}
  /\ log' = [log EXCEPT ![r] = StorageErrorMessage]
  /\ response' = [response EXCEPT ![r] = ErrorReply(StorageErrorMessage)]
  /\ pc' = [pc EXCEPT ![r] = "done"]
  /\ UNCHANGED <<store, queryParams, whereConditions, params, total, request, record, place, scan, scriptVars>>

Next ==
  \E r \in DOMAIN pc :
    \/ Receive(r)
    \/ RandomQuery(r)
    \/ CountQuery(r)
    \/ DataQuery(r)
    \/ QueryFails(r)

Spec == Init /\ [][Next]_vars

----------------------------------------------------------------------------
(* The normalizer on its own, and behind a table of one row *)

\* every raw record over the whole range of both rating sources
RawRecords ==
  { Row(1, "Aroma", NULLTEXT, g, q, NULLTIME, NULLTIME, NULLTAGS) :
      g \in {NULL} \cup 0..MaxRating, q \in {NULL} \cup 0..MaxQualityScore }

\* the requests sent to the one-row table
OneRowQueries ==
  { [NoQuery EXCEPT !.random = x, !.page = p] : x \in {NULLTEXT, "true"}, p \in {NULL, 2} }

InitTransform ==
  /\ record \in RawRecords
  /\ store = <<record>>
  /\ InitHandler({1})
  /\ ScriptsIdle
  /\ place = NoRecord
  /\ scan = NoScan

\* transformDatabaseRecord applied to the raw record
Normalize ==
  /\ place = NoRecord
  /\ place' = transformDatabaseRecord(record)
  /\ UNCHANGED <<store, handlerVars, record, scan, scriptVars>>

ReceiveOneRow(r) == ReceiveFrom(r, OneRowQueries)

NextTransform ==
  \/ Normalize
  \/ \E r \in DOMAIN pc :
       \/ ReceiveOneRow(r)
       \/ RandomQuery(r)
       \/ CountQuery(r)
       \/ DataQuery(r)
       \/ QueryFails(r)

SpecTransform == InitTransform /\ [][NextTransform]_vars

\* the places of every 200 response sent so far
ReturnedPlaces ==
  UNION { Range(response[r].data) : r \in {q \in DOMAIN response : response[q].status = 200} }

----------------------------------------------------------------------------
(* The normalizer on rows with every column *)

\* a stored row: coordinates are NOT NULL; the scores n, the texts t, the
\* flags b and the address columns are null, empty (0, '', false) or set
FullRecord(n, t, b, street, rest, city) ==
  Row(1, "Aroma", city, n, IF n = NULL THEN NULL ELSE n \div 10,
      NULLTIME, NULLTIME, NULLTAGS)
  @@ [ lat |-> 52, lon |-> 0,
       phone |-> t, website |-> t, email |-> t, opening_hours |-> t,
       address_street |-> street, address_housenumber |-> rest,
       address_postcode |-> rest, address_full |-> rest,
       has_wifi |-> b, has_outdoor_seating |-> b, has_wheelchair_access |-> b,
       has_takeaway |-> b, has_delivery |-> b, is_verified |-> b,
       google_review_count |-> n, google_price_level |-> IF n = NULL THEN NULL ELSE n \div 10 ]

FullRecords ==
  { FullRecord(n, t, b, street, rest, city) :
      n \in {NULL, 0, 40}, t \in {NULLTEXT, "", "text"}, b \in {NULLTEXT, "false", "true"},
      street \in {NULLTEXT, "", "Damrak"}, rest \in {NULLTEXT, "", "1012"},
      city \in {NULLTEXT, "Amsterdam"} }

InitSparse ==
  /\ record \in FullRecords
  /\ store = <<record>>
  /\ InitHandler({1})
  /\ ScriptsIdle
  /\ place = NoRecord
  /\ scan = NoScan

NextSparse ==
  \/ Normalize
  \/ \E r \in DOMAIN pc :
       \/ ReceiveOneRow(r)
       \/ RandomQuery(r)
       \/ CountQuery(r)
       \/ DataQuery(r)
       \/ QueryFails(r)

SpecSparse == InitSparse /\ [][NextSparse]_vars

----------------------------------------------------------------------------
(* A client that reads one query page by page: page 1, 2, 3, ... with the   *)
(* same filters and limit, until the pages cover meta.total                 *)

\* the queries the client pages through
ScanQueries ==
  { [NoQuery EXCEPT !.minRating = r, !.limit = l] : r \in {NULL, 30}, l \in {1, 2} }

InitScan ==
  /\ store \in StoresOver(RatingRows)
  /\ InitHandler({1})
  /\ ScriptsIdle
  /\ record = NoRecord
  /\ place = NoRecord
  /\ scan \in { [mode |-> "paging", raw |-> q, page |-> 1, got |-> <<>>] : q \in ScanQueries }

\* the client sends the request for its next page
ScanRequest(r) ==
  /\ scan.mode = "paging"
  /\ ReceiveFrom(r, {[scan.raw EXCEPT !.page = scan.page]})

\* the client takes the reply: appends the page, moves on or stops; a 500 is retried
ScanCollect(r) ==
  /\ scan.mode = "paging"
  /\ pc[r] = "done"
  /\ scan' =
       IF response[r].status # 200 THEN scan
       ELSE [scan EXCEPT
               !.got = scan.got \o [i \in DOMAIN response[r].data |-> response[r].data[i].id],
               !.page = scan.page + 1,
               !.mode = IF scan.page * response[r].meta.pageSize >= response[r].meta.total
                          THEN "done" ELSE "paging"]
  /\ pc' = [pc EXCEPT ![r] = "idle"]
  /\ queryParams' = [queryParams EXCEPT ![r] = NoParams]
  /\ whereConditions' = [whereConditions EXCEPT ![r] = <<>>]
  /\ params' = [params EXCEPT ![r] = <<>>]
  /\ total' = [total EXCEPT ![r] = NULL]
  /\ response' = [response EXCEPT ![r] = NoResponse]
  /\ request' = [request EXCEPT ![r] = NoRequest]
  /\ log' = [log EXCEPT ![r] = NoLog]
  /\ UNCHANGED <<store, record, place, scriptVars>>

NextScan ==
  \E r \in DOMAIN pc :
    \/ ScanRequest(r)
    \/ CountQuery(r)
    \/ DataQuery(r)
    \/ QueryFails(r)
    \/ ScanCollect(r)

SpecScan == InitScan /\ [][NextScan]_vars

----------------------------------------------------------------------------
(* The tags filter *)

\* rows that differ in their tags; cuisine tags are stored as OSM spells them
TagRows ==
  { Row(0, "Aroma", "Amsterdam", NULL, 10, TimeText(8, 0), TimeText(18, 0), t) :
      t \in {NULLTAGS, {}, {"wifi"}, {"wifi", "outdoor"}, {"Italian"}} }

\* tags parameters: absent, empty, one tag, two tags, tags in another case
TagQueries ==
  { [NoQuery EXCEPT !.tags = t, !.random = x] :
      t \in {NULLTAGS, {}, {"wifi"}, {"wifi", "outdoor"}, {"WiFi"}, {"Italian"}},
      x \in {NULLTEXT, "true"} }

InitTags ==
  /\ store \in StoresOver(TagRows)
  /\ InitHandler({1})
  /\ ScriptsIdle
  /\ record = NoRecord
  /\ place = NoRecord
  /\ scan = NoScan

ReceiveTags(r) == ReceiveFrom(r, TagQueries)

NextTags ==
  \E r \in DOMAIN pc :
    \/ ReceiveTags(r)
    \/ RandomQuery(r)
    \/ CountQuery(r)
    \/ DataQuery(r)
    \/ QueryFails(r)

SpecTags == InitTags /\ [][NextTags]_vars

----------------------------------------------------------------------------
(* Two requests side by side, to compare their totals *)

\* rows that differ in tags and in rating
TagPairRows ==
  { Row(0, "Aroma", "Amsterdam", g, NULL, TimeText(8, 0), TimeText(18, 0), t) :
      g \in {NULL, 45}, t \in {{}, {"wifi"}, {"wifi", "outdoor"}} }

\* paged queries that differ in tags and in one other filter
TagPairQueries ==
  { [NoQuery EXCEPT !.tags = t, !.minRating = m] :
      t \in {NULLTAGS, {"wifi"}, {"outdoor"}, {"wifi", "outdoor"}}, m \in {NULL, 30} }

InitTagPair ==
  /\ store \in StoresOver(TagPairRows)
  /\ InitHandler({1, 2})
  /\ ScriptsIdle
  /\ record = NoRecord
  /\ place = NoRecord
  /\ scan = NoScan

ReceiveTagPair(r) == ReceiveFrom(r, TagPairQueries)

NextTagPair ==
  \E r \in DOMAIN pc :
    \/ ReceiveTagPair(r)
    \/ CountQuery(r)
    \/ DataQuery(r)
    \/ QueryFails(r)

SpecTagPair == InitTagPair /\ [][NextTagPair]_vars

----------------------------------------------------------------------------
(* The opening-hours filters *)

\* rows that differ in their simplified opening hours, stored as HH:mm
HoursRows ==
  { Row(0, "Aroma", "Amsterdam", NULL, 10, a, b, {"wifi"}) :
      a \in {NULLTIME, TimeText(8, 0), TimeText(10, 30)},
      b \in {NULLTIME, TimeText(18, 0), TimeText(22, 0)} }

\* openAfter / openBefore values: absent, HH:mm, H:mm, and 25:00
HoursQueries ==
  { [NoQuery EXCEPT !.openAfter = a, !.openBefore = b, !.random = x] :
      a \in {NULLTIME, TimeText(9, 0), ShortTimeText(7, 0), TimeText(25, 0)},
      b \in {NULLTIME, TimeText(20, 0), ShortTimeText(9, 0)},
      x \in {NULLTEXT, "true"} }

InitHours ==
  /\ store \in StoresOver(HoursRows)
  /\ InitHandler({1})
  /\ ScriptsIdle
  /\ record = NoRecord
  /\ place = NoRecord
  /\ scan = NoScan

ReceiveHours(r) == ReceiveFrom(r, HoursQueries)

NextHours ==
  \E r \in DOMAIN pc :
    \/ ReceiveHours(r)
    \/ RandomQuery(r)
    \/ CountQuery(r)
    \/ DataQuery(r)
    \/ QueryFails(r)

SpecHours == InitHours /\ [][NextHours]_vars

----------------------------------------------------------------------------
(* The city filter *)

\* rows that differ in their stored city
CityRows ==
  { Row(0, "Aroma", c, NULL, 10, NULLTIME, NULLTIME, {}) :
      c \in {NULLTEXT, "Amsterdam", "'s-Gravenhage", "'S-GRAVENHAGE", "Den Haag"} }

\* city values: absent, another case, aliases in two cases, a canonical name
CityQueries ==
  { [NoQuery EXCEPT !.city = c, !.random = x] :
      c \in {NULLTEXT, "AMSTERDAM", "Den Haag", "the hague", "'s-gravenhage", "Den Bosch"},
      x \in {NULLTEXT, "true"} }

InitCity ==
  /\ store \in StoresOver(CityRows)
  /\ InitHandler({1})
  /\ ScriptsIdle
  /\ record = NoRecord
  /\ place = NoRecord
  /\ scan = NoScan

ReceiveCity(r) == ReceiveFrom(r, CityQueries)

NextCity ==
  \E r \in DOMAIN pc :
    \/ ReceiveCity(r)
    \/ RandomQuery(r)
    \/ CountQuery(r)
    \/ DataQuery(r)
    \/ QueryFails(r)

SpecCity == InitCity /\ [][NextCity]_vars

----------------------------------------------------------------------------
(* Validation, limits and pages *)

\* two rows that differ in name only
ValidationRows ==
  { Row(0, n, "Amsterdam", NULL, 10, TimeText(8, 0), TimeText(18, 0), {"wifi"}) : n \in Names }

\* raw queries with valid and invalid values side by side: "25:00", a
\* minRating of 9, limits of 0, 101 and "abc", a page of 0, random=yes
ValidationQueries ==
  { [NoQuery EXCEPT !.openAfter = a, !.minRating = m, !.limit = l, !.page = p, !.random = x] :
      a \in {NULLTIME, TimeText(9, 0), TimeText(25, 0)},
      m \in {NULL, 30, 90},
      l \in {NULL, 1, MaxLimit, 0, MaxLimit + 1, NotANumber},
      p \in {NULL, 2, 0},
      x \in {NULLTEXT, "true", "yes"} }

InitValidation ==
  /\ store \in StoresOver(ValidationRows)
  /\ InitHandler({1})
  /\ ScriptsIdle
  /\ record = NoRecord
  /\ place = NoRecord
  /\ scan = NoScan

ReceiveValidation(r) == ReceiveFrom(r, ValidationQueries)

NextValidation ==
  \E r \in DOMAIN pc :
    \/ ReceiveValidation(r)
    \/ RandomQuery(r)
    \/ CountQuery(r)
    \/ DataQuery(r)
    \/ QueryFails(r)

SpecValidation == InitValidation /\ [][NextValidation]_vars

\* a storage query that was sent settles: its promise is fulfilled or rejected
Settle(r) == RandomQuery(r) \/ CountQuery(r) \/ DataQuery(r) \/ QueryFails(r)

\* the request slots of the validation family
ValidationRequests == {1}

\* the validation family where every awaited query settles
SpecResponds ==
  /\ InitValidation
  /\ [][NextValidation]_vars
  /\ \A r \in ValidationRequests : WF_vars(Settle(r))

----------------------------------------------------------------------------
(* The two paths of the query endpoint *)

AliasPaths == {"/coffee-places", "/places"}

AliasRows ==
  { Row(0, "Aroma", "Amsterdam", NULL, 10, TimeText(8, 0), TimeText(18, 0), {"wifi"}),
    Row(0, "Bean", "Amsterdam", 45, 4, NULLTIME, NULLTIME, NULLTAGS) }

AliasQueries ==
  { [NoQuery EXCEPT !.minRating = m, !.random = x, !.limit = l] :
      m \in {NULL, 30}, x \in {NULLTEXT, "true", "yes"}, l \in {NULL, 1, 0} }

InitAlias ==
  /\ store \in StoresOver(AliasRows)
  /\ InitHandler({1, 2})
  /\ ScriptsIdle
  /\ record = NoRecord
  /\ place = NoRecord
  /\ scan = NoScan

ReceiveAlias(r) == ReceiveAt(r, AliasPaths, AliasQueries)

NextAlias ==
  \E r \in DOMAIN pc :
    \/ ReceiveAlias(r)
    \/ RandomQuery(r)
    \/ CountQuery(r)
    \/ DataQuery(r)
    \/ QueryFails(r)

SpecAlias == InitAlias /\ [][NextAlias]_vars

----------------------------------------------------------------------------
(* GET /cities next to the query endpoint *)

\* the city names of the model in the order of ORDER BY address_city ASC
CityOrder == <<"Amsterdam", "'s-Gravenhage">>

CityRank(c) == CHOOSE i \in DOMAIN CityOrder : CityOrder[i] = c

\* GROUP BY address_city over the rows WHERE address_city IS NOT NULL
CityGroups(s) == {s[i].address_city : i \in DOMAIN s} \ {NULLTEXT}

\* COUNT(*) of one group
CityCount(s, c) == Cardinality({i \in DOMAIN s : s[i].address_city = c})

\* ORDER BY count DESC, address_city ASC
CityPrecedes(s, c1, c2) ==
  \/ CityCount(s, c1) > CityCount(s, c2)
  \/ CityCount(s, c1) = CityCount(s, c2) /\ CityRank(c1) < CityRank(c2)

CityRecords(s) ==
  LET n == Cardinality(CityGroups(s))
  IN CHOOSE f \in [1..n -> CityGroups(s)] :
       \A i, j \in 1..n : i < j => CityPrecedes(s, f[i], f[j])

\* the reply of GET /cities
CitiesReply(s) ==
  LET records == CityRecords(s)
  IN [ status |-> 200, total |-> Len(records),
       cities |-> [ i \in DOMAIN records |->
                     [ name |-> records[i],
                       displayName |-> getCityDisplayName(records[i]),
                       count |-> CityCount(s, records[i]) ] ] ]

\* a request on /cities: the grouping query is sent
CitiesReceive(r) ==
  /\ pc[r] = "idle"
  /\ Routes["/cities"] = "citiesHandler"
  /\ request' = [request EXCEPT ![r] = [path |-> "/cities", query |-> NoQuery]]
  /\ pc' = [pc EXCEPT ![r] = "cities"]
  /\ UNCHANGED <<store, queryParams, whereConditions, params, total, response, log, record, place, scan, scriptVars>>

\* the grouping query returns; the list is sent
CitiesQuery(r) ==
  /\ pc[r] = "cities"
  /\ response' = [response EXCEPT ![r] = CitiesReply(store)]
  /\ pc' = [pc EXCEPT ![r] = "done"]
  /\ UNCHANGED <<store, queryParams, whereConditions, params, total, request, log, record, place, scan, scriptVars>>

ReadRows ==
  { Row(0, "Aroma", c, NULL, 10, TimeText(8, 0), TimeText(18, 0), {"wifi"}) :
      c \in {NULLTEXT, "Amsterdam", "'s-Gravenhage"} }

ReadQueries ==
  { [NoQuery EXCEPT !.city = c, !.minRating = m, !.random = x] :
      c \in {NULLTEXT, "Den Haag"}, m \in {NULL, 90}, x \in {NULLTEXT, "true", "yes"} }

InitRead ==
  /\ store \in StoresOver(ReadRows)
  /\ InitHandler({1, 2})
  /\ ScriptsIdle
  /\ record = NoRecord
  /\ place = NoRecord
  /\ scan = NoScan

ReceiveRead(r) == ReceiveAt(r, AliasPaths, ReadQueries)

NextRead ==
  \E r \in DOMAIN pc :
    \/ ReceiveRead(r)
    \/ CitiesReceive(r)
    \/ RandomQuery(r)
    \/ CountQuery(r)
    \/ DataQuery(r)
    \/ CitiesQuery(r)
    \/ QueryFails(r)

SpecRead == InitRead /\ [][NextRead]_vars

----------------------------------------------------------------------------
(* Two requests in flight at once *)

ConcurrentRows ==
  { Row(0, "Aroma", "Amsterdam", NULL, 10, TimeText(8, 0), TimeText(18, 0), {"wifi"}),
    Row(0, "Bean", "Amsterdam", 20, 2, NULLTIME, NULLTIME, NULLTAGS) }

\* requests that differ in filters, mode, limit and validity
ConcurrentQueries ==
  { [NoQuery EXCEPT !.tags = t, !.minRating = m, !.random = x, !.limit = l] :
      t \in {NULLTAGS, {"wifi"}}, m \in {NULL, 30, 90},
      x \in {NULLTEXT, "true"}, l \in {NULL, 1} }

InitConcurrent ==
  /\ store \in StoresOver(ConcurrentRows)
  /\ InitHandler({1, 2})
  /\ ScriptsIdle
  /\ record = NoRecord
  /\ place = NoRecord
  /\ scan = NoScan

ReceiveConcurrent(r) == ReceiveFrom(r, ConcurrentQueries)

NextConcurrent ==
  \E r \in DOMAIN pc :
    \/ ReceiveConcurrent(r)
    \/ RandomQuery(r)
    \/ CountQuery(r)
    \/ DataQuery(r)
    \/ QueryFails(r)

SpecConcurrent == InitConcurrent /\ [][NextConcurrent]_vars

----------------------------------------------------------------------------
(* The sync scripts: syncGooglePlacesData and syncOSMData.  The rows of      *)
(* coffee_places that the script's SELECT matches are carried as a count;    *)
(* costs are in thousandths of a dollar.                                     *)

MAX_SAFE_LIMIT == 5000

FREE_TIER == 5000

\* $17 per 1,000 requests is 17 thousandths of a dollar per request
COST_PER_1000 == 17

calculateCost(requestCount) ==
  IF requestCount <= FREE_TIER THEN 0 ELSE (requestCount - FREE_TIER) * COST_PER_1000

\* limit ? Math.min(limit, MAX_SAFE_LIMIT) : MAX_SAFE_LIMIT
effectiveLimit(limit) == IF Truthy(limit) THEN Min(limit, MAX_SAFE_LIMIT) ELSE MAX_SAFE_LIMIT

\* cafes of one run that end otherwise than found-and-updated
MaxMisses == 1

\* a run of the Google Places script about to start
GoogleJob(dryRun, limit, apiKey, ci, matching) ==
  [ script |-> "google", pc |-> "start",
    dryRun |-> dryRun, limit |-> limit, apiKey |-> apiKey, ci |-> ci, matching |-> matching,
    cafes |-> 0, i |-> 0, estimatedCost |-> NULL, actualCost |-> NULL, syncLog |-> 0,
    apiCallsMade |-> 0, recordsUpdated |-> 0, recordsSkipped |-> 0, errors |-> 0 ]

GoogleJobs ==
  { GoogleJob(dryRun, limit, apiKey, ci, matching) :
      dryRun \in BOOLEAN, limit \in {NULL, 2, 6000}, apiKey \in BOOLEAN, ci \in BOOLEAN,
      matching \in {0, 3, 2501, 5001} }

\* the API key check: process.exit(1) without a key unless --dry-run
GoogleStart ==
  /\ job.script = "google" /\ job.pc = "start"
  /\ job' = [job EXCEPT !.pc = IF ~job.apiKey /\ ~job.dryRun THEN "exited" ELSE "select"]
  /\ UNCHANGED <<sync_logs, apiRequests, placeWrites>>

\* where the run goes once the cafes are selected: nothing to do, the
\* dry-run preview, or on to the sync log, not looking at --dry-run
AfterSelectNoDryRun(j, n) == IF n = 0 THEN "returned" ELSE "log"

\* where the run goes once the cafes are selected: nothing to do, the
\* dry-run preview, or on to the sync log
AfterSelect(j, n) == IF n = 0 \/ j.dryRun THEN "returned" ELSE "log"

\* SELECT ... ORDER BY name ASC LIMIT effectiveLimit, and the cost estimate
GoogleSelect ==
  /\ job.script = "google" /\ job.pc = "select"
  /\ LET n == Min(job.matching, effectiveLimit(job.limit))
     IN job' = [job EXCEPT !.cafes = n,
                           !.estimatedCost = IF n = 0 THEN NULL ELSE calculateCost(n),
                           !.pc = AfterSelect(job, n)]
  /\ UNCHANGED <<sync_logs, apiRequests, placeWrites>>

\* INSERT INTO sync_logs ... 'started', then the API key and CI/CD guards
GoogleInsertLog ==
  /\ job.script = "google" /\ job.pc = "log"
  /\ sync_logs' = Append(sync_logs, [sync_type |-> "google_places_full", status |-> "started"])
  /\ job' = [job EXCEPT !.syncLog = Len(sync_logs) + 1,
                        !.pc = IF ~job.apiKey \/ job.ci THEN "returned" ELSE "loop"]
  /\ UNCHANGED <<apiRequests, placeWrites>>

\* the loop is over when every cafe was visited
AfterCafe(j) == IF j.i + 1 = j.cafes THEN "finish" ELSE "loop"

\* one cafe: Nearby Search and Place Details answer, the row is updated
GoogleCafeFound ==
  /\ job.script = "google" /\ job.pc = "loop"
  /\ apiRequests' = apiRequests + 2
  /\ placeWrites' = placeWrites + 1
  /\ job' = [job EXCEPT !.apiCallsMade = @ + 2, !.recordsUpdated = @ + 1,
                        !.i = @ + 1, !.pc = AfterCafe(job)]
  /\ UNCHANGED sync_logs

\* one cafe: Nearby Search finds nothing
GoogleCafeNotFound ==
  /\ job.script = "google" /\ job.pc = "loop"
  /\ job.recordsSkipped < MaxMisses
  /\ apiRequests' = apiRequests + 1
  /\ job' = [job EXCEPT !.apiCallsMade = @ + 2, !.recordsSkipped = @ + 1,
                        !.i = @ + 1, !.pc = AfterCafe(job)]
  /\ UNCHANGED <<sync_logs, placeWrites>>

\* one cafe: the API answers 429 (wait, continue) or 403 (break)
GoogleCafeError ==
  /\ job.script = "google" /\ job.pc = "loop"
  /\ job.recordsSkipped < MaxMisses
  /\ apiRequests' = apiRequests + 1
  /\ \E status \in {403, 429} :
       job' = [job EXCEPT !.errors = @ + 1, !.recordsSkipped = @ + 1, !.i = @ + 1,
                          !.pc = IF status = 403 THEN "finish" ELSE AfterCafe(job)]
  /\ UNCHANGED <<sync_logs, placeWrites>>

\* the actual cost, and UPDATE sync_logs SET status = 'completed'
GoogleFinish ==
  /\ job.script = "google" /\ job.pc = "finish"
  /\ sync_logs' = [sync_logs EXCEPT ![job.syncLog].status = "completed"]
  /\ job' = [job EXCEPT !.actualCost = calculateCost(job.apiCallsMade), !.pc = "returned"]
  /\ UNCHANGED <<apiRequests, placeWrites>>

\* a statement of the Google script is rejected: the catch block rethrows
GoogleThrows ==
  /\ job.script = "google" /\ job.pc \in {"select", "log", "finish"}
  /\ job' = [job EXCEPT !.pc = "thrown"]
  /\ UNCHANGED <<sync_logs, apiRequests, placeWrites>>

\* a run of the OSM script about to start: elements is what Overpass returns,
\* valid how many transformOSMElement keeps at most
OsmJob(dryRun, elements, valid) ==
  [ script |-> "osm", pc |-> "start", dryRun |-> dryRun, elements |-> elements,
    valid |-> valid, cafes |-> 0, i |-> 0, syncLog |-> 0,
    recordsAdded |-> 0, errors |-> 0 ]

MaxElements == 2

OsmJobs ==
  { OsmJob(dryRun, elements, valid) :
      dryRun \in BOOLEAN, elements \in 0..MaxElements, valid \in 0..MaxElements }

\* syncLog = dryRun ? null : INSERT INTO sync_logs ... 'started'
OsmInsertLog ==
  /\ job.script = "osm" /\ job.pc = "start"
  /\ IF job.dryRun
       THEN /\ sync_logs' = sync_logs
            /\ job' = [job EXCEPT !.pc = "fetch"]
       ELSE /\ sync_logs' = Append(sync_logs, [sync_type |-> "osm_full", status |-> "started"])
            /\ job' = [job EXCEPT !.syncLog = Len(sync_logs) + 1, !.pc = "fetch"]
  /\ UNCHANGED <<apiRequests, placeWrites>>

\* Overpass answers; the elements are transformed; the three early returns
OsmFetch ==
  /\ job.script = "osm" /\ job.pc = "fetch"
  /\ job' = [job EXCEPT !.cafes = Min(job.elements, job.valid),
                        !.pc = IF Min(job.elements, job.valid) = 0 \/ job.dryRun
                                 THEN "returned" ELSE "upsert"]
  /\ UNCHANGED <<sync_logs, apiRequests, placeWrites>>

\* one cafe is inserted or updated, or its statement fails and is counted
OsmUpsert ==
  /\ job.script = "osm" /\ job.pc = "upsert"
  /\ \E ok \in BOOLEAN :
       /\ placeWrites' = IF ok THEN placeWrites + 1 ELSE placeWrites
       /\ job' = [job EXCEPT !.recordsAdded = IF ok THEN @ + 1 ELSE @,
                             !.errors = IF ok THEN @ ELSE @ + 1,
                             !.i = @ + 1,
                             !.pc = IF job.i + 1 = job.cafes THEN "finish" ELSE "upsert"]
  /\ UNCHANGED <<sync_logs, apiRequests>>

\* UPDATE sync_logs SET status = 'completed'
OsmFinish ==
  /\ job.script = "osm" /\ job.pc = "finish"
  /\ sync_logs' = [sync_logs EXCEPT ![job.syncLog].status = "completed"]
  /\ job' = [job EXCEPT !.pc = "returned"]
  /\ UNCHANGED <<apiRequests, placeWrites>>

\* Overpass or the final statement throws: the catch block marks the sync
\* log 'failed' when there is one, and rethrows
OsmThrows ==
  /\ job.script = "osm" /\ job.pc \in {"fetch", "finish"}
  /\ sync_logs' = IF job.syncLog # 0
                    THEN [sync_logs EXCEPT ![job.syncLog].status = "failed"]
                    ELSE sync_logs
  /\ job' = [job EXCEPT !.pc = "thrown"]
  /\ UNCHANGED <<apiRequests, placeWrites>>

\* the handler and the other scripts are left alone by a sync run
SyncFrame ==
  UNCHANGED <<store, handlerVars, record, place, scan, appInstance, createAppCalls,
              invocation, openingHours, simplified>>

InitSync ==
  /\ job \in GoogleJobs \cup OsmJobs
  /\ sync_logs = <<>>
  /\ apiRequests = 0
  /\ placeWrites = 0
  /\ store = <<>>
  /\ InitHandler({})
  /\ record = NoRecord
  /\ place = NoRecord
  /\ scan = NoScan
  /\ appInstance = NoApp
  /\ createAppCalls = 0
  /\ invocation = <<>>
  /\ openingHours = NoHours
  /\ simplified = <<>>

NextSync ==
  \/ GoogleStart /\ SyncFrame
  \/ GoogleSelect /\ SyncFrame
  \/ GoogleInsertLog /\ SyncFrame
  \/ GoogleCafeFound /\ SyncFrame
  \/ GoogleCafeNotFound /\ SyncFrame
  \/ GoogleCafeError /\ SyncFrame
  \/ GoogleFinish /\ SyncFrame
  \/ GoogleThrows /\ SyncFrame
  \/ OsmInsertLog /\ SyncFrame
  \/ OsmFetch /\ SyncFrame
  \/ OsmUpsert /\ SyncFrame
  \/ OsmFinish /\ SyncFrame
  \/ OsmThrows /\ SyncFrame

SpecSync == InitSync /\ [][NextSync]_vars

----------------------------------------------------------------------------
(* The serverless handler: invocations of one process share appInstance.     *)
(* The application that the n-th call of createApp() builds is called n.     *)

MaxInvocations == 3

\* an invocation that has not arrived: created is the application its own
\* createApp() call returned, served the one its request was injected into
NoInvocation == [pc |-> "idle", call |-> 0, created |-> 0, served |-> 0, status |-> 0]

\* the invocation arrives: if (!appInstance) createApp() is called and awaited
Invoke(v) ==
  /\ invocation[v].pc = "idle"
  /\ IF appInstance = NoApp
       THEN /\ createAppCalls' = createAppCalls + 1
            /\ invocation' = [invocation EXCEPT ![v].pc = "createApp",
                                                ![v].call = createAppCalls + 1]
       ELSE /\ createAppCalls' = createAppCalls
            /\ invocation' = [invocation EXCEPT ![v].pc = "inject"]
  /\ UNCHANGED appInstance

\* createApp() resolves: appInstance is assigned, ready() is awaited
CreateAppResolves(v) ==
  /\ invocation[v].pc = "createApp"
  /\ appInstance' = invocation[v].call
  /\ invocation' = [invocation EXCEPT ![v].pc = "ready", ![v].created = invocation[v].call]
  /\ UNCHANGED createAppCalls

\* ready() resolves
ReadyResolves(v) ==
  /\ invocation[v].pc = "ready"
  /\ invocation' = [invocation EXCEPT ![v].pc = "inject"]
  /\ UNCHANGED <<appInstance, createAppCalls>>

\* appInstance.inject(...) on the application cached at this moment; the
\* response is copied out
Inject(v) ==
  /\ invocation[v].pc = "inject"
  /\ invocation' = [invocation EXCEPT ![v].pc = "done", ![v].served = appInstance,
                                      ![v].status = 200]
  /\ UNCHANGED <<appInstance, createAppCalls>>

\* createApp() or ready() rejects: the catch block answers 500
StartupFails(v) ==
  /\ invocation[v].pc \in {"createApp", "ready"}
  /\ invocation' = [invocation EXCEPT ![v].pc = "done", ![v].status = 500]
  /\ UNCHANGED <<appInstance, createAppCalls>>

ServerlessFrame ==
  UNCHANGED <<store, handlerVars, record, place, scan, job, sync_logs, apiRequests,
              placeWrites, openingHours, simplified>>

InitServerless ==
  /\ appInstance = NoApp
  /\ createAppCalls = 0
  /\ invocation = [v \in 1..MaxInvocations |-> NoInvocation]
  /\ store = <<>>
  /\ InitHandler({})
  /\ record = NoRecord
  /\ place = NoRecord
  /\ scan = NoScan
  /\ job = NoJob
  /\ sync_logs = <<>>
  /\ apiRequests = 0
  /\ placeWrites = 0
  /\ openingHours = NoHours
  /\ simplified = <<>>

NextServerless ==
  \E v \in DOMAIN invocation :
    \/ Invoke(v) /\ ServerlessFrame
    \/ CreateAppResolves(v) /\ ServerlessFrame
    \/ ReadyResolves(v) /\ ServerlessFrame
    \/ Inject(v) /\ ServerlessFrame
    \/ StartupFails(v) /\ ServerlessFrame

SpecServerless == InitServerless /\ [][NextServerless]_vars

----------------------------------------------------------------------------
(* Simplified opening hours of an OSM element: utils/transform.ts *)

\* `${hours.padStart(2, "0")}:${minutes.padStart(2, "0")}` of a text that
\* matched \d{1,2}:\d{2}: only a one-digit hour is padded
formatTime(time) == IF Len(time) = 4 THEN <<48>> \o time ELSE time

DigitAt(s, i) == i >= 1 /\ i <= Len(s) /\ IsDigit(s[i])

CodeAt(s, i, c) == i >= 1 /\ i <= Len(s) /\ s[i] = c

\* the length of the match of \d{1,2}:\d{2} that starts at position i, 0
\* when there is none; the two-digit hour is tried first
TimeLen(s, i) ==
  IF DigitAt(s, i) /\ DigitAt(s, i + 1) /\ CodeAt(s, i + 2, 58)
       /\ DigitAt(s, i + 3) /\ DigitAt(s, i + 4) THEN 5
  ELSE IF DigitAt(s, i) /\ CodeAt(s, i + 1, 58)
       /\ DigitAt(s, i + 2) /\ DigitAt(s, i + 3) THEN 4
  ELSE 0

\* \s* from position i: the position after the blanks
RECURSIVE SkipSpaces(_, _)
SkipSpaces(s, i) == IF CodeAt(s, i, 32) THEN SkipSpaces(s, i + 1) ELSE i

\* /(\d{1,2}:\d{2})\s*-\s*(\d{1,2}:\d{2})/ tried at position i
DashAt(s, i) == SkipSpaces(s, i + TimeLen(s, i))

SecondAt(s, i) == SkipSpaces(s, DashAt(s, i) + 1)

MatchesAt(s, i) ==
  /\ TimeLen(s, i) > 0
  /\ CodeAt(s, DashAt(s, i), 45)
  /\ TimeLen(s, SecondAt(s, i)) > 0

\* String.prototype.match without the g flag: the leftmost match
FirstMatch(s) ==
  CHOOSE i \in 1..Len(s) : MatchesAt(s, i) /\ \A j \in 1..(i - 1) : ~MatchesAt(s, j)

\* parseSimpleOpeningHours followed by the destructuring of its result in
\* transformOSMElement; an absent field is NULLTIME (undefined)
parseSimpleOpeningHours(s) ==
  IF ~TruthyTime(s) \/ \A i \in 1..Len(s) : ~MatchesAt(s, i)
  THEN [openingHoursStart |-> NULLTIME, openingHoursEnd |-> NULLTIME]
  ELSE LET i == FirstMatch(s)
           k == SecondAt(s, i)
       IN [openingHoursStart |-> formatTime(SubSeq(s, i, i + TimeLen(s, i) - 1)),
           openingHoursEnd |-> formatTime(SubSeq(s, k, k + TimeLen(s, k) - 1))]

\* opening_hours values as OSM carries them: a time written with or without
\* the leading zero of its hour
WrittenTime(h, m, padded) ==
  IF h < 10 /\ ~padded THEN ShortTimeText(h, m) ELSE TimeText(h, m)

\* "Mo-Fr "
WeekdaysPrefix == <<77, 111, 45, 70, 114, 32>>

OsmRanges ==
  { prefix \o WrittenTime(h1, m1, padded) \o dash \o TimeText(h2, m2) :
      prefix \in {<<>>, WeekdaysPrefix},
      h1 \in {0, 8},
      m1 \in {0, 30},
      padded \in BOOLEAN,
      dash \in {<<45>>, <<32, 45, 32>>},
      h2 \in {17, 24, 26},
      m2 \in {0} }

\* "24/7", "sunrise-sunset" cut to "sunset", "08:00" alone, "08:00-" and a
\* second range after the first
OsmOtherValues ==
  { NULLTIME, <<>>, <<50, 52, 47, 55>>, <<115, 117, 110, 115, 101, 116>>,
    TimeText(8, 0), TimeText(8, 0) \o <<45>>,
    TimeText(8, 0) \o <<45>> \o TimeText(12, 0) \o <<44>>
      \o TimeText(14, 0) \o <<45>> \o TimeText(18, 0),
    ShortTimeText(9, 75) \o <<45>> \o TimeText(17, 0),
    <<49>> \o TimeText(8, 0) \o <<45>> \o TimeText(17, 0) }

OsmOpeningHours == OsmRanges \cup OsmOtherValues

\* transformOSMElement, lines 80-81
TransformHours ==
  /\ simplified = <<>>
  /\ openingHours # NoHours
  /\ simplified' = <<parseSimpleOpeningHours(openingHours.value)>>
  /\ UNCHANGED <<store, handlerVars, record, place, scan, job, sync_logs,
                 apiRequests, placeWrites, appInstance, createAppCalls,
                 invocation, openingHours>>

InitOsmHours ==
  /\ openingHours \in [value : OsmOpeningHours]
  /\ simplified = <<>>
  /\ store = <<>>
  /\ InitHandler({})
  /\ record = NoRecord
  /\ place = NoRecord
  /\ scan = NoScan
  /\ job = NoJob
  /\ sync_logs = <<>>
  /\ apiRequests = 0
  /\ placeWrites = 0
  /\ appInstance = NoApp
  /\ createAppCalls = 0
  /\ invocation = <<>>

NextOsmHours == TransformHours

SpecOsmHours == InitOsmHours /\ [][NextOsmHours]_vars

----------------------------------------------------------------------------
(* Claims *)

\* C1: with minRating = r, every place of a paged or random response has
\* rating >= r.
C1_ReturnedRatingAtLeastMin ==
  \A r \in DOMAIN response :
    (response[r].status = 200 /\ queryParams[r].minRating # NULL)
      => \A p \in Range(response[r].data) : p.rating >= queryParams[r].minRating

\* C2: a raw record with a google_rating R in [0,5] and a quality_score S
\* in 0..10 is given rating R.
C2_GoogleRatingTakesPrecedence ==
  (place # NoRecord /\ record.google_rating # NULL /\ record.quality_score # NULL)
    => place.rating = record.google_rating

\* C3: the rating of a normalized record is a number from 0 to 5, never
\* null, for the record on its own and for every place of every 200 response.
C3_RatingInRange ==
  /\ place # NoRecord => place.rating \in 0..MaxRating
  /\ \A p \in ReturnedPlaces : p.rating \in 0..MaxRating

C3_Witness ==
  /\ place # NoRecord
  /\ record.google_rating = NULL /\ record.quality_score = NULL
  /\ place.rating = 0
  /\ \E p \in ReturnedPlaces : p.rating = 0

C5_PagesPartitionFilteredSet ==
  scan.mode = "done" =>
    LET where == CompileWhere(ParseQuery(scan.raw))
        matches == Selected(store, where.conds, where.params)
    IN /\ Range(scan.got) = matches
       /\ Len(scan.got) = Cardinality(matches)

\* the rows that satisfy the filters of request r, whatever its page and limit
Filtered(r) ==
  LET where == CompileWhere([queryParams[r] EXCEPT !.limit = NULL, !.page = NULL])
  IN Selected(store, where.conds, where.params)

\* request r was parsed and no storage query of it failed
Served(r) == pc[r] = "done" /\ response[r].status \notin {400, 500}

Paged(r) == Served(r) /\ ~queryParams[r].random

Random(r) == Served(r) /\ queryParams[r].random

\* C6: in a paged response meta.total is the number of rows that match the
\* filters, the same for every page and limit.
C6_TotalIsMatchCount ==
  \A r \in DOMAIN pc :
    Paged(r) => response[r].meta.total = Cardinality(Filtered(r))

C6_Witness ==
  \E r \in DOMAIN pc :
    /\ Paged(r)
    /\ queryParams[r].minRating # NULL /\ queryParams[r].page = 2 /\ queryParams[r].limit = 1
    /\ response[r].meta.total = 1
    /\ Cardinality(DOMAIN store) = 2

\* C7: a paged request whose offset is at or past the number of matches is
\* answered 200 with no data and meta = {real total, requested page,
\* effective limit}.
C7_PageBeyondEndIsEmpty ==
  \A r \in DOMAIN pc :
    (Paged(r) /\ Offset(queryParams[r]) >= Cardinality(Filtered(r)))
      => /\ response[r].status = 200
         /\ response[r].data = <<>>
         /\ response[r].meta = [ total |-> Cardinality(Filtered(r)),
                                  page |-> EffectivePage(queryParams[r]),
                                  pageSize |-> EffectiveLimit(queryParams[r]) ]

C7_Witness ==
  \E r \in DOMAIN pc :
    /\ Paged(r)
    /\ queryParams[r].page = MaxPage /\ queryParams[r].limit = NULL
    /\ response[r].meta = [total |-> 2, page |-> MaxPage, pageSize |-> DefaultLimit]
    /\ response[r].data = <<>>

\* C8: 404 is sent exactly when a random request matches no row; a paged
\* request that matches no row gets 200 with no data and total 0.
C8_NotFoundOnlyForEmptyRandom ==
  \A r \in DOMAIN pc :
    /\ response[r].status = 404 <=> (Random(r) /\ Filtered(r) = {})
    /\ (Paged(r) /\ Filtered(r) = {})
         => /\ response[r].status = 200
            /\ response[r].data = <<>>
            /\ response[r].meta.total = 0

C8_Witness ==
  /\ \E r \in DOMAIN pc : response[r].status = 404 /\ store # <<>>
                            /\ queryParams[r].minRating # NULL

\* C9: a random request that matches some row gets 200 with one row of the
\* filtered set, any row of that set being possible, and
\* meta = {total 1, page 1, pageSize 1} whatever page and limit were sent.
C9_RandomReturnsOneMatch ==
  \A r \in DOMAIN pc :
    /\ (Random(r) /\ Filtered(r) # {})
         => /\ response[r].status = 200
            /\ Len(response[r].data) = 1
            /\ \E id \in Filtered(r) : response[r].data[1] = transformDatabaseRecord(store[id])
            /\ response[r].meta = [total |-> 1, page |-> 1, pageSize |-> 1]
    /\ (pc[r] = "random")
         => \A id \in Filtered(r) :
              ENABLED (RandomQuery(r) /\ response'[r].status = 200
                                      /\ response'[r].data[1].id = id)

C9_Witness ==
  \E r \in DOMAIN pc :
    /\ Random(r)
    /\ queryParams[r].limit = 1 /\ queryParams[r].page = 2
    /\ Cardinality(Filtered(r)) = 2
    /\ \E id \in Filtered(r) :
         /\ response[r].data[1].id = id
         /\ \E first \in Filtered(r) : ~MayPrecede(store[id], store[first])

\* C10: the count query and the data query of one request select the same
\* rows: the page is cut out of exactly the rows that total counts.
C10_CountAndDataAgree ==
  \A r \in DOMAIN pc :
    Paged(r) =>
      LET counted == Selected(store, whereConditions[r], params[r])
          ids == [i \in DOMAIN response[r].data |-> response[r].data[i].id]
      IN /\ response[r].meta.total = Cardinality(counted)
         /\ Range(ids) \subseteq counted
         /\ \A i, j \in DOMAIN ids : i # j => ids[i] # ids[j]
         /\ Len(ids) = Min(EffectiveLimit(queryParams[r]),
                            Max(0, response[r].meta.total - Offset(queryParams[r])))

C10_Witness ==
  \E r \in DOMAIN pc :
    /\ Paged(r)
    /\ queryParams[r].minRating # NULL
    /\ response[r].meta.total = 1 /\ Len(response[r].data) = 1
    /\ Cardinality(DOMAIN store) = 2

\* the tag set a request asks for, as parsed; none when the parameter is absent
RequestedTags(r) == IF queryParams[r].tags = NULLTAGS THEN {} ELSE queryParams[r].tags

\* the tags a row carries
StoredTags(rec) == IF rec.tags = NULLTAGS THEN {} ELSE rec.tags

\* the rows whose tags hold every requested tag
TagSupersets(r) == {id \in DOMAIN store : RequestedTags(r) \subseteq StoredTags(store[id])}

\* C11: the filtered set of a request with tag set T is exactly the rows whose
\* stored tags are a superset of T; an empty tags parameter filters nothing.
C11_TagsAreSupersetFilter ==
  \A r \in DOMAIN pc :
    /\ Paged(r) => /\ response[r].meta.total = Cardinality(TagSupersets(r))
                   /\ \A p \in Range(response[r].data) : p.id \in TagSupersets(r)
    /\ Random(r) => /\ response[r].status = 404 <=> TagSupersets(r) = {}
                    /\ response[r].status = 200 => response[r].data[1].id \in TagSupersets(r)
    /\ pc[r] = "random" =>
         \A id \in TagSupersets(r) :
           ENABLED (RandomQuery(r) /\ response'[r].status = 200
                                   /\ response'[r].data[1].id = id)

C11_Witness ==
  \E r \in DOMAIN pc :
    /\ Paged(r)
    /\ request[r].query.tags = {"WiFi"}
    /\ response[r].meta.total = 1
    /\ Cardinality(DOMAIN store) = 2
    /\ response[r].data[1].tags = {"wifi", "outdoor"}

\* requests a and b carry the same filters apart from tags
SameOtherFilters(a, b) ==
  [queryParams[a] EXCEPT !.tags = NULLTAGS] = [queryParams[b] EXCEPT !.tags = NULLTAGS]

\* C12: with the other filters equal, a request whose tag set includes the
\* tag set of another request never has the larger total.
C12_TagFilterMonotonic ==
  \A a, b \in DOMAIN pc :
    (Paged(a) /\ Paged(b) /\ SameOtherFilters(a, b)
       /\ RequestedTags(a) \subseteq RequestedTags(b))
      => response[b].meta.total <= response[a].meta.total

C12_Witness ==
  \E a, b \in DOMAIN pc :
    /\ Paged(a) /\ Paged(b) /\ SameOtherFilters(a, b)
    /\ queryParams[a].minRating # NULL
    /\ RequestedTags(a) = {"wifi"} /\ RequestedTags(b) = {"wifi", "outdoor"}
    /\ response[a].meta.total = 2 /\ response[b].meta.total = 1

\* C13: with openAfter = t every returned place opens at or before t, and
\* with openBefore = t every returned place closes at or after t, in
\* time-of-day order, for every accepted t.
C13_HoursFiltersInTimeOrder ==
  \A r \in DOMAIN pc :
    (Served(r) /\ response[r].status = 200) =>
      \A p \in Range(response[r].data) :
        /\ queryParams[r].openAfter # NULLTIME
             => compareTime(p.openHours.start, queryParams[r].openAfter) <= 0
        /\ queryParams[r].openBefore # NULLTIME
             => compareTime(p.openHours.end, queryParams[r].openBefore) >= 0

\* the rows whose stored city is the canonical name of the city asked for,
\* ignoring case
CityMatches(r) ==
  { id \in DOMAIN store :
      /\ store[id].address_city # NULLTEXT
      /\ LOWER(store[id].address_city) = LOWER(getCanonicalCityName(request[r].query.city)) }

\* the rows stored under 's-Gravenhage in any case
TheHagueRows == {id \in DOMAIN store : LOWER(store[id].address_city) = "'s-gravenhage"}

Arrived(r) == request[r] # NoRequest

\* no storage query of request r was sent
NoQuerySent(r) == pc[r] \in {"idle", "done"} /\ total[r] = NULL /\ log[r] # StorageErrorMessage

\* C15: a request with one or more invalid parameters sends no storage query
\* and ends with status 400 and a body {error, details} whose details name
\* every failing field.
C15_EveryInvalidFieldReported ==
  \A r \in DOMAIN pc :
    (Arrived(r) /\ InvalidFields(request[r].query) # {}) =>
      /\ NoQuerySent(r)
      /\ pc[r] = "done"
      /\ response[r].status = 400
      /\ DOMAIN response[r] = {"status", "error", "details"}
      /\ response[r].details = InvalidFields(request[r].query)

\* the limit and the page a raw query asks for, after defaulting
AskedLimit(raw) == IF raw.limit = NULL THEN 10 ELSE raw.limit

AskedPage(raw) == IF raw.page = NULL THEN 1 ELSE raw.page

\* C16: in a 200 paged response meta.pageSize is the limit asked for, 10 when
\* absent, within 1..100; meta.page is the page asked for, 1 when absent, at
\* least 1; data has at most pageSize elements; a limit outside 1..100 or a
\* page below 1 sends no storage query.
C16_EffectiveLimitAndPage ==
  \A r \in DOMAIN pc :
    /\ Paged(r) =>
         /\ response[r].meta.pageSize = AskedLimit(request[r].query)
         /\ response[r].meta.pageSize \in 1..100
         /\ response[r].meta.page = AskedPage(request[r].query)
         /\ response[r].meta.page >= 1
         /\ Len(response[r].data) <= response[r].meta.pageSize
    /\ (Arrived(r) /\ ( AskedLimit(request[r].query) \notin 1..100
                        \/ AskedPage(request[r].query) < 1 )) =>
         /\ NoQuerySent(r)
         /\ response[r].status = 400

C16_Witness ==
  \E r \in DOMAIN pc :
    /\ Paged(r)
    /\ request[r].query.limit = NULL /\ request[r].query.page = NULL
    /\ response[r].meta.pageSize = 10 /\ response[r].meta.page = 1
    /\ Len(response[r].data) = 2

C16_WitnessRejected ==
  \E r \in DOMAIN pc :
    /\ Arrived(r)
    /\ request[r].query.limit = MaxLimit + 1
    /\ response[r].status = 400 /\ response[r].details = {"limit"}

\* a storage query of request r failed
StorageFailed(r) == pc[r] = "done" /\ log[r] = StorageErrorMessage

\* C17: when a storage query fails the request ends with status 500, the
\* message of the storage error is in the log and in no field of the body.
C17_StorageMessageStaysInLog ==
  \A r \in DOMAIN pc :
    StorageFailed(r) =>
      /\ response[r].status = 500
      /\ \A f \in DOMAIN response[r] \ {"status"} : response[r][f] # StorageErrorMessage

\* the fields of a place in a response
PlaceFields == {"id", "name", "city", "rating", "openHours", "tags"}

\* a response is one of the four whole payloads
CompleteResponse(resp) ==
  \/ /\ resp.status = 200
     /\ DOMAIN resp = {"status", "meta", "data"}
     /\ DOMAIN resp.meta = {"total", "page", "pageSize"}
     /\ Len(resp.data) = Min(resp.meta.pageSize,
                             Max(0, resp.meta.total - (resp.meta.page - 1) * resp.meta.pageSize))
     /\ \A q \in Range(resp.data) : PlaceFields \subseteq DOMAIN q
  \/ resp.status = 400 /\ DOMAIN resp \in {{"status", "error"}, {"status", "error", "details"}}
  \/ resp.status = 404 /\ DOMAIN resp = {"status", "error"}
  \/ resp.status = 500 /\ DOMAIN resp = {"status", "error", "message"}

\* C18: every request that arrives ends with a response, a response once sent
\* is never replaced, and it is a whole 200 payload or a 400, 404 or 500 error
\* payload; when the data query fails after the count, only the 500 is sent.
C18_OneCompleteResponse ==
  /\ [](\A r \in DOMAIN pc :
          /\ (pc[r] = "done") <=> (response[r] # NoResponse)
          /\ response[r] # NoResponse => CompleteResponse(response[r]))
  /\ [][\A r \in DOMAIN pc : response[r] # NoResponse => response'[r] = response[r]]_vars
  /\ \A r \in ValidationRequests : Arrived(r) ~> (pc[r] = "done")

C18_Witness ==
  \E r \in DOMAIN pc :
    /\ StorageFailed(r)
    /\ total[r] = 2
    /\ response[r] = ErrorReply(StorageErrorMessage)

\* the ids of the rows a 200 response carries, in order
ReturnedIds(r) == [i \in DOMAIN response[r].data |-> response[r].data[i].id]

\* storage treated requests a and b alike: both queries failed or neither,
\* and the rows came back in the same order (the same random row)
SameStorageOutcome(a, b) ==
  /\ log[a] = log[b]
  /\ (response[a].status = 200 /\ response[b].status = 200) => ReturnedIds(a) = ReturnedIds(b)

\* C19: both paths are served by the handler, and a query string sent to
\* /coffee-places and to /places is validated and compiled alike and, storage
\* answering alike, gets the same status and the same payload.
C19_AliasPathsAgree ==
  \A a, b \in DOMAIN pc :
    /\ pc[a] = "idle" => \A path \in AliasPaths : ENABLED ReceiveAt(a, {path}, AliasQueries)
    /\ ( /\ Arrived(a) /\ Arrived(b)
         /\ request[a].path = "/coffee-places" /\ request[b].path = "/places"
         /\ request[a].query = request[b].query ) =>
         /\ queryParams[a] = queryParams[b]
         /\ whereConditions[a] = whereConditions[b]
         /\ params[a] = params[b]
         /\ (pc[a] = "done" /\ pc[b] = "done" /\ SameStorageOutcome(a, b))
              => response[a] = response[b]

C19_Witness ==
  \E a, b \in DOMAIN pc :
    /\ Arrived(a) /\ Arrived(b)
    /\ request[a].path = "/coffee-places" /\ request[b].path = "/places"
    /\ request[a].query = request[b].query
    /\ request[a].query.minRating = 30 /\ request[a].query.limit = 1
    /\ Cardinality(DOMAIN store) = 2
    /\ pc[a] = "done" /\ pc[b] = "done"
    /\ response[a].status = 200 /\ response[a].meta.total = 2
    /\ response[a] = response[b]

\* C20: no step of a request to /coffee-places, /places or /cities changes
\* the stored records, whatever the parameters and the outcome.
C20_QueryPathReadOnly == [][store' = store]_vars

C20_Witness ==
  \E a, b \in DOMAIN pc :
    /\ request[a].path = "/cities" /\ pc[a] = "done"
    /\ response[a].status = 200 /\ response[a].total = 2
    /\ response[a].cities[2].displayName = "The Hague"
    /\ request[b].path = "/places" /\ Paged(b)
    /\ response[b].meta.total = 1
    /\ Len(store) = 2

\* the responses a raw query can get when it is the only request, over the
\* table as it is
AloneResponses(raw) ==
  IF SchemaInvalidFields(raw) # <<>> THEN {SchemaErrorReply}
  ELSE IF InvalidFields(raw) # {} THEN {ValidationReply(InvalidFields(raw))}
  ELSE
    LET qp == ParseQuery(raw)
        where == CompileWhere(qp)
    IN {ErrorReply(StorageErrorMessage)} \cup
       IF qp.random
         THEN { IF Len(rows) = 0 THEN NotFoundReply
                ELSE OkReply([total |-> 1, page |-> 1, pageSize |-> 1], rows) :
                  rows \in RandomRows(store, where.conds, where.params) }
         ELSE { OkReply([ total |-> CountRows(store, where.conds, where.params),
                          page |-> EffectivePage(qp), pageSize |-> EffectiveLimit(qp) ], rows) :
                  rows \in DataRows(store, where.conds, where.params,
                                    EffectiveLimit(qp), Offset(qp)) }

\* C21: whatever the interleaving with another request, the predicate list,
\* the parameters and the count of a request are those of its own query
\* string, and its response is one it could get when running alone.
C21_RequestsDoNotInterfere ==
  \A r \in DOMAIN pc :
    /\ pc[r] \in {"random", "count", "data"} =>
         /\ queryParams[r] = ParseQuery(request[r].query)
         /\ whereConditions[r] = CompileWhere(queryParams[r]).conds
         /\ params[r] = CompileWhere(queryParams[r]).params
    /\ pc[r] = "data" => total[r] = CountRows(store, CompileWhere(ParseQuery(request[r].query)).conds,
                                                     CompileWhere(ParseQuery(request[r].query)).params)
    /\ pc[r] = "done" => response[r] \in AloneResponses(request[r].query)

C21_Witness ==
  \E a, b \in DOMAIN pc :
    /\ pc[a] = "data" /\ pc[b] = "data"
    /\ whereConditions[a] # whereConditions[b]
    /\ queryParams[a].limit # queryParams[b].limit
    /\ total[a] = 2 /\ total[b] = 1

\* the output fields by the column they come from
NumberSources ==
  [ lat |-> "lat", lon |-> "lon", qualityScore |-> "quality_score",
    googleRating |-> "google_rating", googleReviewCount |-> "google_review_count",
    googlePriceLevel |-> "google_price_level" ]

FlagSources ==
  [ hasWifi |-> "has_wifi", hasOutdoorSeating |-> "has_outdoor_seating",
    hasWheelchairAccess |-> "has_wheelchair_access", hasTakeaway |-> "has_takeaway",
    hasDelivery |-> "has_delivery", isVerified |-> "is_verified" ]

TextSources ==
  [ phone |-> "phone", website |-> "website", email |-> "email",
    openingHours |-> "opening_hours" ]

AddressSources ==
  [ street |-> "address_street", housenumber |-> "address_housenumber",
    postcode |-> "address_postcode", city |-> "address_city", full |-> "address_full" ]

\* out is a sparse rendering of rec: core fields present and not null, an
\* optional field present only over a non-null (text: non-empty) column
SparseOver(rec, out) ==
  /\ PlaceFields \subseteq DOMAIN out
  /\ DOMAIN out \subseteq PlaceFields \cup DOMAIN NumberSources \cup DOMAIN FlagSources
                            \cup DOMAIN TextSources \cup {"address"}
  /\ out.name # NULLTEXT /\ out.city \notin {NULLTEXT, ""} /\ out.rating # NULL
  /\ out.openHours.start # NULLTIME /\ out.openHours.end # NULLTIME /\ out.tags # NULLTAGS
  /\ \A f \in DOMAIN NumberSources \cap DOMAIN out :
       rec[NumberSources[f]] # NULL /\ out[f] = rec[NumberSources[f]]
  /\ \A f \in DOMAIN FlagSources \cap DOMAIN out :
       rec[FlagSources[f]] # NULLTEXT /\ out[f] = rec[FlagSources[f]]
  /\ \A f \in DOMAIN TextSources \cap DOMAIN out :
       rec[TextSources[f]] \notin {NULLTEXT, ""} /\ out[f] = rec[TextSources[f]]
  /\ "address" \in DOMAIN out =>
       /\ DOMAIN out.address # {}
       /\ DOMAIN out.address \subseteq DOMAIN AddressSources
       /\ \A f \in DOMAIN out.address :
            rec[AddressSources[f]] \notin {NULLTEXT, ""} /\ out.address[f] = rec[AddressSources[f]]

\* C22: in the normalized place, and in every place a response carries, the
\* core fields are present, no field holds null, and an optional field is
\* present only when its column is non-null, and non-empty for texts.
C22_SparseFields ==
  /\ place # NoRecord => SparseOver(record, place)
  /\ \A out \in ReturnedPlaces : SparseOver(record, out)

C22_Witness ==
  /\ place # NoRecord
  /\ record.phone = "" /\ record.address_street = NULLTEXT /\ record.address_postcode = "1012"
  /\ record.has_wifi = "false" /\ record.google_rating = NULL
  /\ DOMAIN place = PlaceFields \cup {"lat", "lon", "address", "hasWifi", "hasOutdoorSeating",
                                       "hasWheelchairAccess", "hasTakeaway", "hasDelivery", "isVerified"}
  /\ DOMAIN place.address = {"housenumber", "postcode", "full"}
  /\ place \in ReturnedPlaces

\* C23: the rating of a place is its google_rating when the record has one
\* and 0 otherwise; quality_score plays no part in it and is shown only as
\* qualityScore, unscaled.
C23_RatingIsGoogleOrZero ==
  \A out \in (IF place = NoRecord THEN {} ELSE {place}) \cup ReturnedPlaces :
    /\ out.rating = IF record.google_rating # NULL THEN record.google_rating ELSE 0
    /\ record.quality_score # NULL => out.qualityScore = record.quality_score

\* a Google Places run
GoogleRun == job.script = "google"

\* the run is over: it returned, threw or left through process.exit
Ended == job.pc \in {"returned", "thrown", "exited"}

\* C24: a Google Places run with --dry-run sends no API request, updates no
\* coffee_places row and writes no sync_logs row, whatever the other options
\* and the table.
C24_DryRunTouchesNothing ==
  (GoogleRun /\ job.dryRun) => apiRequests = 0 /\ placeWrites = 0 /\ sync_logs = <<>>

C24_Witness ==
  /\ GoogleRun /\ job.dryRun /\ job.pc = "returned"
  /\ ~job.apiKey /\ job.limit = NULL /\ job.cafes = MAX_SAFE_LIMIT
  /\ job.estimatedCost = 0

\* C25: whatever --limit is, a Google Places run handles at most 5,000
\* cafes, sends at most 5,000 API requests, and the cost computed at the end
\* from the calls made is 0, as estimated before the run.
C25_CapKeepsRunFree ==
  GoogleRun =>
    /\ job.cafes <= MAX_SAFE_LIMIT
    /\ apiRequests <= FREE_TIER
    /\ job.actualCost # NULL => job.actualCost = 0 /\ job.actualCost = job.estimatedCost

\* C29: when a sync run has returned or thrown, every sync_logs row it
\* inserted as 'started' is 'completed' or 'failed'.
C29_SyncLogReachesTerminalStatus ==
  job.pc \in {"returned", "thrown"} =>
    \A n \in DOMAIN sync_logs : sync_logs[n].status \in {"completed", "failed"}

\* the rows whose normalized rating meets the minRating of request r
EffectiveRatingMatches(r) ==
  {id \in DOMAIN store : transformDatabaseRecord(store[id]).rating >= queryParams[r].minRating}

\* C26: for a request with minRating the filtered set, which total counts and
\* pages and random selection draw from, is exactly the rows whose normalized
\* rating is at least minRating.
C26_MinRatingMatchesEffectiveRating ==
  \A r \in DOMAIN pc :
    (pc[r] \in {"random", "count", "data", "done"} /\ response[r].status # 400
       /\ queryParams[r].minRating # NULL) =>
      /\ Selected(store, whereConditions[r], params[r]) = EffectiveRatingMatches(r)
      /\ Paged(r) => response[r].meta.total = Cardinality(EffectiveRatingMatches(r))

\* the rows whose openHours, as the response shows them, satisfy the
\* openAfter and openBefore of request r
ShownHoursMatch(r) ==
  { id \in DOMAIN store :
      LET shown == transformDatabaseRecord(store[id]).openHours
      IN /\ queryParams[r].openAfter # NULLTIME
              => compareTime(shown.start, queryParams[r].openAfter) <= 0
         /\ queryParams[r].openBefore # NULLTIME
              => compareTime(shown.end, queryParams[r].openBefore) >= 0 }

\* C27: the filtered set of a request with openAfter or openBefore is exactly
\* the rows whose shown openHours.start (stored, or 08:00) is at or before
\* openAfter and whose shown openHours.end (stored, or 18:00) is at or after
\* openBefore.
C27_HoursFilterAgreesWithShownHours ==
  \A r \in DOMAIN pc :
    (pc[r] \in {"random", "count", "data", "done"} /\ response[r].status # 400) =>
      Selected(store, whereConditions[r], params[r]) = ShownHoursMatch(r)

\* the invocations whose own createApp() result was assigned to appInstance
Assigners == {v \in DOMAIN invocation : invocation[v].created # 0}

\* the applications that served an invocation
ServingInstances == {invocation[v].served : v \in {w \in DOMAIN invocation : invocation[w].served # 0}}

\* C28: createApp() is called at most once, appInstance is assigned at most
\* once, and all invocations are served by one and the same application.
C28_SingletonApp ==
  /\ createAppCalls <= 1
  /\ Cardinality(Assigners) <= 1
  /\ Cardinality(ServingInstances) <= 1

\* C30: for every OSM opening_hours string, the simplified start and end
\* that transformOSMElement derives are either both absent or both HH:mm
\* texts of exactly five characters with hour 00-23 and minute 00-59
ValidHHmm(t) == Len(t) = 5 /\ MatchesTimePattern(t)

C30_SimplifiedHoursAreValid ==
  \A n \in DOMAIN simplified :
    \/ /\ simplified[n].openingHoursStart = NULLTIME
       /\ simplified[n].openingHoursEnd = NULLTIME
    \/ /\ ValidHHmm(simplified[n].openingHoursStart)
       /\ ValidHHmm(simplified[n].openingHoursEnd)

====
